---- MODULE Spec2Model ----
(***************************************************************************)
(* The analysis task pipeline of backend/app/services/analyzer.py and the  *)
(* two endpoints of backend/app/endpoints/analyze.py.                      *)
(*                                                                         *)
(* A Python dict is a function whose domain is its key set, so that "key   *)
(* in dict" is membership in DOMAIN and "dict[key] = value" is SetKey.     *)
(* A coroutine is atomic between two awaits: run_analysis suspends only in *)
(* the asyncio.sleep of a module, so one step of the model runs it from    *)
(* one suspension to the next.                                             *)
(*                                                                         *)
(* Environment: the five module bodies are placeholders for real page      *)
(* analysis, so an invocation either returns the placeholder's literal     *)
(* payload, or raises an Exception; the performance module may also return *)
(* a payload whose score is not a number. Writing a result file may fail   *)
(* after open() has created it, and reading one may fail. The storage      *)
(* directory exists (WebsiteAnalyzer.__init__ creates it).                 *)
(***************************************************************************)
EXTENDS Integers, Sequences, FiniteSets, TLC

\* Bounds of the model.
MaxTasks == 2
MaxTotalModules == 2

TaskIds == 1..MaxTasks

Recognized == {"performance", "seo", "accessibility", "technology", "carbon"}

ModuleNames == Recognized \cup {"bogus"}

ModuleLists(n) == UNION {[1..k -> ModuleNames] : k \in 0..n}

Urls == {"https://example.com"}

\* AnalysisRequest's defaults for depth and device.
Depths == {1}

Devices == {"desktop"}

\* datetime.now().isoformat(): the value is never read by the program.
Now == "ts"

(***************************************************************************)
(* Python dicts and values                                                 *)
(***************************************************************************)
EmptyDict == [k \in {} |-> TRUE]

SetKey(d, k, v) == [x \in DOMAIN d \cup {k} |-> IF x = k THEN v ELSE d[x]]

\* A JSON value that is a number, and one that is not.
Num(n) == [num |-> n]

NotANumber == [str |-> "n/a"]

IsNum(v) == DOMAIN v = {"num"}

RECURSIVE Gcd(_, _)
Gcd(a, b) == IF b = 0 THEN a ELSE Gcd(b, a % b)

\* The float n / d, kept exact as a fraction in lowest terms (d > 0, n >= 0).
Quotient(n, d) == [num |-> n \div Gcd(n, d), den |-> d \div Gcd(n, d)]

\* The int n.
Whole(n) == [num |-> n, den |-> 1]

(***************************************************************************)
(* The placeholder modules                                                 *)
(***************************************************************************)
AnalyzePerformance ==
    [lighthouse_score |-> Num(85),
     metrics |-> [first_contentful_paint |-> Num(1200)]]

AnalyzeSeo == [score |-> Num(78)]

AnalyzeAccessibility == [score |-> Num(72)]

AnalyzeTechnologyStack == [server |-> "Nginx"]

AnalyzeCarbonEmissions == [cleaner_than |-> Num(65)]

\* What "results = await self._analyze_<name>(...)" can yield.
ModuleOutcomes(module_name) ==
    LET literal == CASE module_name = "performance" -> AnalyzePerformance
                     [] module_name = "seo" -> AnalyzeSeo
                     [] module_name = "accessibility" -> AnalyzeAccessibility
                     [] module_name = "technology" -> AnalyzeTechnologyStack
                     [] module_name = "carbon" -> AnalyzeCarbonEmissions
        odd == CASE module_name = "performance" ->
                        {[literal EXCEPT !.lighthouse_score = NotANumber]}
                 [] OTHER -> {}
    IN  {[raised |-> FALSE, value |-> p] : p \in {literal} \cup odd}
            \cup {[raised |-> TRUE, error |-> "module failed"]}

(***************************************************************************)
(* _generate_summary                                                       *)
(***************************************************************************)
RECURSIVE Sum(_)
Sum(scores) == IF scores = <<>> THEN 0 ELSE Head(scores).num + Sum(Tail(scores))

\* Mutant: the score of every module is read from its "score" field.
ScoreUniformField(results, name, field) ==
    IF name \in DOMAIN results /\ "score" \in DOMAIN results[name]
    THEN <<results[name]["score"]>> ELSE <<>>

Score(results, name, field) ==
    IF name \in DOMAIN results /\ field \in DOMAIN results[name]
    THEN <<results[name][field]>> ELSE <<>>

\* Mutant: the sum is divided by the number of scored modules, not of scores.
OverallScoreOverThree(scores) ==
    IF scores # <<>> THEN Quotient(Sum(scores), 3) ELSE Whole(0)

\* Lines 200-202.
OverallScore(scores) ==
    IF scores # <<>> THEN Quotient(Sum(scores), Len(scores)) ELSE Whole(0)

\* Mutant: a first contentful paint of exactly 2000 counts as slow.
SlowFirstPaintInclusive(fcp) == fcp.num >= 2000

\* Line 210: perf_metrics["first_contentful_paint"] > 2000.
SlowFirstPaint(fcp) == fcp.num > 2000

GenerateSummary(results) ==
    LET scores == Score(results, "performance", "lighthouse_score")
                    \o Score(results, "seo", "score")
                    \o Score(results, "accessibility", "score")
        metrics == [n \in {m \in {"performance", "seo", "accessibility"} :
                             Score(results, m, IF m = "performance"
                                               THEN "lighthouse_score" ELSE "score") # <<>>}
                      |-> Score(results, n, IF n = "performance"
                                            THEN "lighthouse_score" ELSE "score")[1]]
        hasFcp == /\ "performance" \in DOMAIN results
                  /\ "metrics" \in DOMAIN results["performance"]
                  /\ "first_contentful_paint" \in DOMAIN results["performance"].metrics
        fcp == results["performance"].metrics.first_contentful_paint
        slow == hasFcp /\ SlowFirstPaint(fcp)
    IN  IF \E i \in 1..Len(scores) : ~IsNum(scores[i])
        THEN [raised |-> TRUE, error |-> "TypeError"]    \* sum(scores)
        ELSE IF hasFcp /\ ~IsNum(fcp)
        THEN [raised |-> TRUE, error |-> "TypeError"]    \* fcp > 2000
        ELSE [raised |-> FALSE,
              value |->
                [overall_score |-> OverallScore(scores),
                 metrics |-> metrics,
                 issues |-> [critical |-> 0,
                             important |-> IF slow THEN 1 ELSE 0,
                             moderate |-> 0,
                             minor |-> 0],
                 recommendations |->
                    IF slow THEN <<"Improve First Contentful Paint">> ELSE <<>>]]

(***************************************************************************)
(* Persistence: _save_results, _load_results                               *)
(***************************************************************************)
None == [none |-> TRUE]

\* A file that open(filename, 'w') created and json.dump did not finish.
Truncated == [truncated |-> TRUE]

\* json.dump writes the record as one JSON object: its members, a name and a
\* value each.
JsonDump(task) == [text |-> {<<k, task[k]>> : k \in DOMAIN task}]

\* json.load builds a dict from the members of the object; a truncated file
\* is not a JSON document.
JsonLoad(file) ==
    IF file = Truncated
    THEN [raised |-> TRUE]
    ELSE [raised |-> FALSE,
          value |-> [k \in {member[1] : member \in file.text} |->
                        (CHOOSE member \in file.text : member[1] = k)[2]]]

SaveOutcomes == {"ok", "dump_fails"}

LoadOutcomes == {"ok", "read_fails"}

\* Mutant: _save_results without its try/except, a failed write is raised.
SaveResultsNoCatch(files, task_id, task, io) ==
    [raised |-> io # "ok",
     files |-> IF io = "ok"
               THEN SetKey(files, task_id, JsonDump(task))
               ELSE SetKey(files, task_id, Truncated)]

\* Every failure is caught and logged: nothing is raised to the caller.
SaveResults(files, task_id, task, io) ==
    [raised |-> FALSE,
     files |-> IF io = "ok"
               THEN SetKey(files, task_id, JsonDump(task))
               ELSE SetKey(files, task_id, Truncated)]

\* Mutant: _load_results without its try/except, a failed read is raised.
LoadResultsNoCatch(files, task_id, io) ==
    IF task_id \in DOMAIN files
    THEN IF io = "read_fails" \/ JsonLoad(files[task_id]).raised
         THEN [raised |-> TRUE]
         ELSE [raised |-> FALSE, value |-> JsonLoad(files[task_id]).value]
    ELSE [raised |-> FALSE, value |-> None]

\* Every failure is caught and logged, and None is returned.
LoadResults(files, task_id, io) ==
    IF task_id \in DOMAIN files
    THEN IF io = "read_fails" \/ JsonLoad(files[task_id]).raised
         THEN [raised |-> FALSE, value |-> None]
         ELSE [raised |-> FALSE, value |-> JsonLoad(files[task_id]).value]
    ELSE [raised |-> FALSE, value |-> None]

(***************************************************************************)
(* start_analysis, run_analysis, get_analysis_results                      *)
(***************************************************************************)
\* Mutant: the new record replaces the dict instead of being added to it.
StartAnalysisReplaceStore(tasks, task_id, url, modules, depth, device) ==
    SetKey(EmptyDict, task_id,
           [status |-> "pending",
            url |-> url,
            modules |-> modules,
            depth |-> depth,
            device |-> device,
            timestamp |-> Now,
            results |-> EmptyDict,
            started_at |-> Now])

StartAnalysis(tasks, task_id, url, modules, depth, device) ==
    SetKey(tasks, task_id,
           [status |-> "pending",
            url |-> url,
            modules |-> modules,
            depth |-> depth,
            device |-> device,
            timestamp |-> Now,
            results |-> EmptyDict,
            started_at |-> Now])

\* Mutant: the outer handler also stamps the completion time.
TaskErrorStamped(files, task, message, log) ==
    [task |-> SetKey(SetKey(SetKey(task, "status", "error"), "error", message),
                     "completed_at", Now),
     files |-> files,
     log |-> log \o <<"error">>,
     pc |-> [at |-> "returned"]]

\* Mutant: the outer handler records the error and raises it again.
TaskErrorReraise(files, task, message, log) ==
    [task |-> SetKey(SetKey(task, "status", "error"), "error", message),
     files |-> files,
     log |-> log \o <<"error">>,
     pc |-> [at |-> "raised"]]

\* The outer "except Exception" (lines 110-113): the run ends here. log is what
\* the run has assigned to "status" in this step so far.
TaskError(files, task, message, log) ==
    [task |-> SetKey(SetKey(task, "status", "error"), "error", message),
     files |-> files,
     log |-> log \o <<"error">>,
     pc |-> [at |-> "returned"]]

\* Mutant: a failure of the summary is isolated like a module's, and the task
\* is completed without a summary.
FinalizeIsolatedSummary(files, task_id, task, io) ==
    LET summary == GenerateSummary(task.results)
        plain == SetKey(SetKey(task, "status", "completed"), "completed_at", Now)
        done == IF summary.raised THEN plain ELSE SetKey(plain, "summary", summary.value)
        saved == SaveResults(files, task_id, done, io)
    IN  [task |-> done,
         files |-> saved.files,
         log |-> <<"completed">>,
         pc |-> [at |-> "returned"]]

\* Mutant: the record is written before the status and the completion time
\* are assigned.
FinalizeSaveEarly(files, task_id, task, io) ==
    LET summary == GenerateSummary(task.results)
        early == SetKey(task, "summary", summary.value)
        done == SetKey(SetKey(early, "status", "completed"), "completed_at", Now)
        saved == SaveResults(files, task_id, early, io)
    IN  IF summary.raised
        THEN TaskError(files, task, summary.error, <<>>)
        ELSE [task |-> done,
              files |-> saved.files,
              log |-> <<"completed">>,
              pc |-> [at |-> "returned"]]

\* Mutant: the record is written whether or not the summary failed (the save
\* in a "finally").
FinalizeSaveAlways(files, task_id, task, io) ==
    LET summary == GenerateSummary(task.results)
        done == SetKey(SetKey(SetKey(task, "summary", summary.value),
                              "status", "completed"),
                       "completed_at", Now)
        failed == TaskError(files, task, summary.error, <<>>)
    IN  IF summary.raised
        THEN [failed EXCEPT !.files = SaveResults(files, task_id, failed.task, io).files]
        ELSE [task |-> done,
              files |-> SaveResults(files, task_id, done, io).files,
              log |-> <<"completed">>,
              pc |-> [at |-> "returned"]]

\* Lines 100-108: summary, status, completion time, save.
Finalize(files, task_id, task, io) ==
    LET summary == GenerateSummary(task.results)
        done == SetKey(SetKey(SetKey(task, "summary", summary.value),
                              "status", "completed"),
                       "completed_at", Now)
        saved == SaveResults(files, task_id, done, io)
    IN  IF summary.raised
        THEN TaskError(files, task, summary.error, <<>>)
        ELSE IF saved.raised
        THEN TaskError(saved.files, done, "save failed", <<"completed">>)
        ELSE [task |-> done,
              files |-> saved.files,
              log |-> <<"completed">>,
              pc |-> [at |-> "returned"]]

\* Mutant: a name that was already requested earlier in the list is skipped.
RECURSIVE NextAwaitDedup(_, _)
NextAwaitDedup(modules, i) ==
    IF i > Len(modules)
         \/ (modules[i] \in Recognized /\ \A k \in 1..(i - 1) : modules[k] # modules[i])
    THEN i
    ELSE NextAwaitDedup(modules, i + 1)

\* The index of the first recognized name at or after i, or Len(modules) + 1:
\* an unrecognized name is "continue"d without an await.
RECURSIVE NextAwait(_, _)
NextAwait(modules, i) ==
    IF i > Len(modules) \/ modules[i] \in Recognized
    THEN i
    ELSE NextAwait(modules, i + 1)

\* Mutant: an unrecognized name is given an error entry instead of being skipped.
RECURSIVE MarkSkipped(_, _, _, _)
MarkSkipped(results, modules, i, j) ==
    IF i >= j
    THEN results
    ELSE MarkSkipped(SetKey(results, modules[i], [error |-> "unknown module"]),
                     modules, i + 1, j)

RunFromMarkUnknown(files, task_id, task, i, io) ==
    LET j == NextAwait(task.modules, i)
        marked == SetKey(task, "results", MarkSkipped(task.results, task.modules, i, j))
    IN  IF j <= Len(task.modules)
        THEN [task |-> marked, files |-> files, log |-> <<>>, pc |-> [at |-> "module", i |-> j]]
        ELSE Finalize(files, task_id, marked, io)

\* Mutant: an unrecognized name ends the run ("return" for "continue").
RunFromReturnOnUnknown(files, task_id, task, i, io) ==
    LET j == NextAwait(task.modules, i)
    IN  IF i <= Len(task.modules) /\ task.modules[i] \notin Recognized
        THEN [task |-> task, files |-> files, log |-> <<>>, pc |-> [at |-> "returned"]]
        ELSE IF j <= Len(task.modules)
        THEN [task |-> task, files |-> files, log |-> <<>>, pc |-> [at |-> "module", i |-> j]]
        ELSE Finalize(files, task_id, task, io)

\* The for loop from index i up to its next suspension, or through to the end.
RunFrom(files, task_id, task, i, io) ==
    LET j == NextAwait(task.modules, i)
    IN  IF j <= Len(task.modules)
        THEN [task |-> task, files |-> files, log |-> <<>>, pc |-> [at |-> "module", i |-> j]]
        ELSE Finalize(files, task_id, task, io)

\* Mutant: a module that raises leaves no entry.
ModuleStepDropError(files, task_id, task, i, outcome, io) ==
    LET stored == SetKey(task, "results",
                         SetKey(task.results, task.modules[i], outcome.value))
    IN  RunFrom(files, task_id, IF outcome.raised THEN task ELSE stored, i + 1, io)

\* Mutant: no inner try/except, a module that raises ends the run.
ModuleStepNoIsolation(files, task_id, task, i, outcome, io) ==
    LET stored == SetKey(task, "results",
                         SetKey(task.results, task.modules[i], outcome.value))
    IN  IF outcome.raised
        THEN TaskError(files, task, outcome.error, <<>>)
        ELSE RunFrom(files, task_id, stored, i + 1, io)

\* Mutant: the outcome replaces the results dict instead of being added to it.
ModuleStepOverwrite(files, task_id, task, i, outcome, io) ==
    LET entry == IF outcome.raised THEN [error |-> outcome.error] ELSE outcome.value
        stored == SetKey(task, "results", SetKey(EmptyDict, task.modules[i], entry))
    IN  RunFrom(files, task_id, stored, i + 1, io)

\* The awaited module i has returned or raised: lines 94-98, then the loop goes on.
ModuleStep(files, task_id, task, i, outcome, io) ==
    LET entry == IF outcome.raised THEN [error |-> outcome.error] ELSE outcome.value
        stored == SetKey(task, "results", SetKey(task.results, task.modules[i], entry))
    IN  RunFrom(files, task_id, stored, i + 1, io)

\* Mutant: the run writes the record to storage as soon as it starts.
RunStartCheckpoint(files, task_id, task, io) ==
    LET started == RunFrom(SaveResults(files, task_id, SetKey(task, "status", "running"),
                                       "ok").files,
                           task_id, SetKey(task, "status", "running"), 1, io)
    IN  [started EXCEPT !.log = <<"running">> \o @]

\* Mutant: no check of the identifier, the lookup at line 68 raises KeyError.
RunMissingNoGuard(tasks, files, task_id) ==
    [raised |-> TRUE, tasks |-> tasks, files |-> files]

\* Lines 64-66: run_analysis with an identifier that is not in the dict logs
\* an error and returns.
RunMissing(tasks, files, task_id) ==
    [raised |-> FALSE, tasks |-> tasks, files |-> files]

\* Lines 68-69, then the loop.
RunStart(files, task_id, task, io) ==
    LET started == RunFrom(files, task_id, SetKey(task, "status", "running"), 1, io)
    IN  [started EXCEPT !.log = <<"running">> \o @]

\* Mutant: the lookup reads the file and never the dict.
GetAnalysisResultsFromDisk(tasks, files, task_id, io) ==
    LoadResults(files, task_id, io)

GetAnalysisResults(tasks, files, task_id, io) ==
    IF task_id \notin DOMAIN tasks
    THEN LoadResults(files, task_id, io)
    ELSE [raised |-> FALSE, value |-> tasks[task_id]]

(***************************************************************************)
(* The endpoints                                                           *)
(***************************************************************************)
\* The required fields of the response model AnalysisResult.
AnalysisResult == {"url", "timestamp", "results", "summary"}

\* FastAPI validates the returned value against response_model after the
\* endpoint function has returned: a missing required field is a server error,
\* and a field the model does not declare is dropped.
SerializeResponse(result) ==
    IF AnalysisResult \subseteq DOMAIN result
    THEN [code |-> 200, body |-> [k \in AnalysisResult |-> result[k]]]
    ELSE [code |-> 500, detail |-> "Internal Server Error"]

GetAnalysisResultsEndpoint(tasks, files, task_id, io) ==
    LET result == GetAnalysisResults(tasks, files, task_id, io)
    IN  IF result.raised
        THEN [code |-> 500, detail |-> "Failed to retrieve analysis results"]
        ELSE IF result.value = None
        THEN [code |-> 404, detail |-> "Analysis task not found"]
        ELSE SerializeResponse(result.value)

(***************************************************************************)
(* The system                                                              *)
(***************************************************************************)
VARIABLES
    analysis_tasks,   \* the module-level dict of analyzer.py
    storage,          \* data/analysis_results: task id -> file
    runs,             \* the background tasks: task id -> where run_analysis is
    requested,        \* history: every identifier issued -> its module list
    statusLog,        \* history: every value assigned to a record's "status"
    invoked,          \* history: the module invocations that have finished
    given_results,    \* _generate_summary alone: its argument
    computed          \* _generate_summary alone: what it returned or raised

fnvars == <<given_results, computed>>

vars == <<analysis_tasks, storage, runs, requested, statusLog, invoked,
          given_results, computed>>

InitSystem ==
    /\ analysis_tasks = EmptyDict
    /\ storage = EmptyDict
    /\ runs = EmptyDict
    /\ requested = EmptyDict
    /\ statusLog = EmptyDict
    /\ invoked = EmptyDict

Init ==
    /\ InitSystem
    /\ given_results = EmptyDict
    /\ computed = None

RECURSIVE TotalLen(_, _)
TotalLen(lists, ids) ==
    IF ids = {} THEN 0
    ELSE LET id == CHOOSE x \in ids : TRUE
         IN  Len(lists[id]) + TotalLen(lists, ids \ {id})

ModulesLeft == MaxTotalModules - TotalLen(requested, DOMAIN requested)

\* str(uuid.uuid4()): an identifier never issued before. Identifiers are opaque,
\* so the model issues them in increasing order.
FreshIds == {id \in TaskIds : id = Cardinality(DOMAIN requested) + 1}

\* POST /api/analyze: start_analysis, then the run is added as a background task.
AnalyzeWebsite ==
    \E task_id \in FreshIds, url \in Urls,
       modules \in ModuleLists(ModulesLeft), depth \in Depths, device \in Devices :
        /\ analysis_tasks' = StartAnalysis(analysis_tasks, task_id, url, modules, depth, device)
        /\ runs' = SetKey(runs, task_id, [at |-> "scheduled"])
        /\ requested' = SetKey(requested, task_id, modules)
        /\ statusLog' = SetKey(statusLog, task_id, <<"pending">>)
        /\ invoked' = SetKey(invoked, task_id, <<>>)
        /\ UNCHANGED <<storage, fnvars>>

\* Mutant: the results dict is one object shared by all the records.
ApplyShared(task_id, step) ==
    /\ analysis_tasks' =
          [id \in DOMAIN analysis_tasks |->
              IF id = task_id
              THEN step.task
              ELSE [analysis_tasks[id] EXCEPT !.results = step.task.results]]
    /\ storage' = step.files
    /\ runs' = SetKey(runs, task_id, step.pc)
    /\ statusLog' = SetKey(statusLog, task_id, statusLog[task_id] \o step.log)
    /\ UNCHANGED <<requested, fnvars>>

Apply(task_id, step) ==
    /\ analysis_tasks' = SetKey(analysis_tasks, task_id, step.task)
    /\ storage' = step.files
    /\ runs' = SetKey(runs, task_id, step.pc)
    /\ statusLog' = SetKey(statusLog, task_id, statusLog[task_id] \o step.log)
    /\ UNCHANGED <<requested, fnvars>>

\* The background task starts: run_analysis up to its first await.
RunAnalysis ==
    \E task_id \in DOMAIN runs, io \in SaveOutcomes :
        /\ runs[task_id].at = "scheduled"
        /\ IF task_id \notin DOMAIN analysis_tasks
           THEN /\ runs' = SetKey(runs, task_id, [at |-> "returned"])
                /\ UNCHANGED <<analysis_tasks, storage, requested, statusLog, fnvars>>
           ELSE Apply(task_id, RunStart(storage, task_id, analysis_tasks[task_id], io))
        /\ UNCHANGED invoked

\* The awaited module finishes: run_analysis up to its next await.
ModuleReturns ==
    \E task_id \in DOMAIN runs, io \in SaveOutcomes :
        /\ runs[task_id].at = "module"
        /\ task_id \in DOMAIN analysis_tasks
        /\ LET i == runs[task_id].i
               module_name == analysis_tasks[task_id].modules[i]
           IN  \E outcome \in ModuleOutcomes(module_name) :
                 /\ Apply(task_id, ModuleStep(storage, task_id, analysis_tasks[task_id],
                                              i, outcome, io))
                 /\ invoked' = SetKey(invoked, task_id,
                                      Append(invoked[task_id],
                                             [name |-> module_name, outcome |-> outcome]))

\* GET /api/analysis/{task_id}: the response is
\* GetAnalysisResultsEndpoint(analysis_tasks, storage, task_id, io); nothing is written.
GetAnalysis ==
    \E task_id \in TaskIds, io \in LoadOutcomes :
        /\ GetAnalysisResultsEndpoint(analysis_tasks, storage, task_id, io).code
              \in {200, 404, 500}
        /\ UNCHANGED vars

\* The process stops and starts again: the dict and the background tasks are
\* lost, the files stay.
Restart ==
    /\ analysis_tasks # EmptyDict
    /\ analysis_tasks' = EmptyDict
    /\ runs' = EmptyDict
    /\ UNCHANGED <<storage, requested, statusLog, invoked, fnvars>>

Next == AnalyzeWebsite \/ RunAnalysis \/ ModuleReturns \/ GetAnalysis

Spec == Init /\ [][Next]_vars

\* The event loop runs every background task that was added, and every
\* awaited module returns or raises.
Fairness == WF_vars(RunAnalysis) /\ WF_vars(ModuleReturns)

SpecFair == Init /\ [][Next]_vars /\ Fairness

NextRestart == Next \/ Restart

SpecRestart == Init /\ [][NextRestart]_vars

\* run_analysis called on the service itself, with an identifier the dict does
\* not hold.
RunAnalysisDirect ==
    \E task_id \in TaskIds \ DOMAIN analysis_tasks :
        LET call == RunMissing(analysis_tasks, storage, task_id)
        IN  /\ ~call.raised
            /\ analysis_tasks' = call.tasks
            /\ storage' = call.files
            /\ UNCHANGED <<runs, requested, statusLog, invoked, fnvars>>

NextDirect == NextRestart \/ RunAnalysisDirect

SpecDirect == Init /\ [][NextDirect]_vars

(***************************************************************************)
(* _generate_summary alone, on every results mapping of a bounded set      *)
(***************************************************************************)
ScoreValues == {0, 72, 78, 85, 100}

FcpValues == {1200, 2000, 2001}

\* Records over a set of optional fields: every subset of the fields, every value.
PerformanceEntries ==
    {[error |-> "module failed"]}
      \cup {EmptyDict}
      \cup {[lighthouse_score |-> v] : v \in {Num(n) : n \in ScoreValues} \cup {NotANumber}}
      \cup {[metrics |-> m] :
               m \in {EmptyDict} \cup {[first_contentful_paint |-> Num(n)] : n \in FcpValues}}
      \cup {[lighthouse_score |-> v, metrics |-> m] :
               v \in {Num(n) : n \in ScoreValues} \cup {NotANumber},
               m \in {EmptyDict} \cup {[first_contentful_paint |-> Num(n)] : n \in FcpValues}
                      \cup {[first_contentful_paint |-> NotANumber]}}

ScoredEntries ==
    {[error |-> "module failed"], [issues |-> <<>>]}
      \cup {[score |-> v] : v \in {Num(n) : n \in ScoreValues} \cup {NotANumber}}

OtherEntries == {[error |-> "module failed"], AnalyzeTechnologyStack}

Entries(name) ==
    CASE name = "performance" -> PerformanceEntries
      [] name \in {"seo", "accessibility"} -> ScoredEntries
      [] OTHER -> OtherEntries

SummaryNames == {"performance", "seo", "accessibility", "technology"}

ResultMappings ==
    UNION {{r \in [names -> UNION {Entries(n) : n \in names}] :
              \A n \in names : r[n] \in Entries(n)} : names \in SUBSET SummaryNames}

InitSummary ==
    /\ InitSystem
    /\ given_results \in ResultMappings
    /\ computed = None

Summarize ==
    /\ computed = None
    /\ computed' = GenerateSummary(given_results)
    /\ UNCHANGED <<analysis_tasks, storage, runs, requested, statusLog, invoked,
                   given_results>>

NextSummary == Summarize

SpecSummary == InitSummary /\ [][NextSummary]_vars

(***************************************************************************)
(* Properties                                                              *)
(***************************************************************************)
IsPrefix(s, t) == Len(s) <= Len(t) /\ \A i \in 1..Len(s) : s[i] = t[i]

Returned(id) == id \in DOMAIN runs /\ runs[id].at = "returned"

\* C1: the values assigned to a record's status, in order, are a prefix of
\* pending, running, completed or of pending, running, error, and the record's
\* status is the last of them: the status never goes back and never leaves
\* completed or error.
C1_StatusMonotonic ==
    \A id \in DOMAIN statusLog :
        /\ \/ IsPrefix(statusLog[id], <<"pending", "running", "completed">>)
           \/ IsPrefix(statusLog[id], <<"pending", "running", "error">>)
        /\ id \in DOMAIN analysis_tasks =>
             analysis_tasks[id].status = statusLog[id][Len(statusLog[id])]

C1_Witness ==
    \E a, b \in DOMAIN analysis_tasks :
        /\ statusLog[a] = <<"pending", "running", "completed">>
        /\ statusLog[b] = <<"pending", "running", "error">>

\* C2: in a completed record every requested name of the recognized set is a
\* key of results.
C2_RecognizedPresent ==
    \A id \in DOMAIN analysis_tasks :
        LET task == analysis_tasks[id]
        IN  task.status = "completed" =>
              \A i \in 1..Len(task.modules) :
                  task.modules[i] \in Recognized => task.modules[i] \in DOMAIN task.results

C2_Witness ==
    \E id \in DOMAIN analysis_tasks :
        LET task == analysis_tasks[id]
        IN  /\ task.status = "completed"
            /\ \E m, n \in DOMAIN task.results :
                 /\ "error" \in DOMAIN task.results[m]
                 /\ "error" \notin DOMAIN task.results[n]

\* What line 94 or line 98 stores for an outcome.
Expected(outcome) == IF outcome.raised THEN [error |-> outcome.error] ELSE outcome.value

LastOutcome(calls, name) ==
    LET last == CHOOSE i \in 1..Len(calls) :
                    /\ calls[i].name = name
                    /\ \A j \in (i + 1)..Len(calls) : calls[j].name # name
    IN  calls[last].outcome

IsRecognized(name) == name \in Recognized

\* C3: failure isolation. Each entry of results is what the last invocation of
\* its module returned, or the error marker of what it raised, whatever the other
\* modules did; every recognized name requested is invoked although an earlier
\* one raised; and a run that ends with a module having raised ends completed
\* unless the summary itself fails.
C3_FailureIsolation ==
    \A id \in DOMAIN analysis_tasks :
        LET task == analysis_tasks[id]
            calls == invoked[id]
        IN  /\ DOMAIN task.results = {calls[i].name : i \in 1..Len(calls)}
            /\ \A m \in DOMAIN task.results :
                 task.results[m] = Expected(LastOutcome(calls, m))
            /\ Returned(id) =>
                 /\ [i \in 1..Len(calls) |-> calls[i].name]
                      = SelectSeq(task.modules, IsRecognized)
                 /\ ~GenerateSummary(task.results).raised => task.status = "completed"

C3_Witness ==
    \E id \in DOMAIN analysis_tasks :
        LET task == analysis_tasks[id]
            calls == invoked[id]
        IN  /\ Returned(id)
            /\ task.status = "completed"
            /\ Len(calls) = 2
            /\ calls[1].outcome.raised
            /\ ~calls[2].outcome.raised
            /\ task.results[calls[1].name] = [error |-> "module failed"]
            /\ task.results[calls[2].name] = calls[2].outcome.value

\* C4: the keys of results are recognized names, in memory and in storage; an
\* unrecognized name leaves no entry and does not make the task end in error.
C4_OnlyRecognizedKeys ==
    /\ \A id \in DOMAIN analysis_tasks :
         LET task == analysis_tasks[id]
             unknown == {i \in 1..Len(task.modules) : task.modules[i] \notin Recognized}
         IN  /\ DOMAIN task.results \subseteq Recognized
             /\ (Returned(id) /\ unknown # {} /\ ~GenerateSummary(task.results).raised)
                  => task.status = "completed" /\ "error" \notin DOMAIN task
             /\ (Returned(id) /\ unknown = 1..Len(task.modules))
                  => task.status = "completed" /\ task.results = EmptyDict
    /\ \A id \in DOMAIN storage :
         storage[id] # Truncated =>
            DOMAIN JsonLoad(storage[id]).value.results \subseteq Recognized

C4_Witness ==
    \E id \in DOMAIN analysis_tasks :
        LET task == analysis_tasks[id]
        IN  /\ task.status = "completed"
            /\ \E i, j \in 1..Len(task.modules) :
                 /\ task.modules[i] \notin Recognized
                 /\ task.modules[j] \in Recognized
                 /\ DOMAIN task.results = {task.modules[j]}

\* The three places a score is read from.
ScoreFields ==
    {<<"performance", "lighthouse_score">>, <<"seo", "score">>, <<"accessibility", "score">>}

PresentScores(results) ==
    {mf \in ScoreFields : mf[1] \in DOMAIN results /\ mf[2] \in DOMAIN results[mf[1]]}

RECURSIVE Total(_, _)
Total(results, fields) ==
    IF fields = {} THEN 0
    ELSE LET mf == CHOOSE x \in fields : TRUE
         IN  results[mf[1]][mf[2]].num + Total(results, fields \ {mf})

FcpPresent(results) ==
    /\ "performance" \in DOMAIN results
    /\ "metrics" \in DOMAIN results["performance"]
    /\ "first_contentful_paint" \in DOMAIN results["performance"].metrics

\* C5: the overall score times the number of scores present is their sum, and
\* it is 0 when none is present; an error marker or a missing module has no
\* score and is not counted. A summary is returned exactly when every value
\* read is a number.
C5_OverallScoreIsMean ==
    computed # None =>
        LET present == PresentScores(given_results)
            numeric ==
                /\ \A mf \in present : IsNum(given_results[mf[1]][mf[2]])
                /\ FcpPresent(given_results) =>
                     IsNum(given_results["performance"].metrics.first_contentful_paint)
            overall == computed.value.overall_score
        IN  /\ computed.raised <=> ~numeric
            /\ ~computed.raised =>
                 /\ overall.den > 0
                 /\ overall.num * Cardinality(present)
                      = Total(given_results, present) * overall.den
                 /\ present = {} => overall = Whole(0)

C5_Witness ==
    /\ computed # None
    /\ ~computed.raised
    /\ DOMAIN given_results = {"performance", "seo", "accessibility"}
    /\ "error" \in DOMAIN given_results["performance"]
    /\ given_results["seo"] = [score |-> Num(85)]
    /\ given_results["accessibility"] = [score |-> Num(78)]
    /\ computed.value.overall_score = [num |-> 163, den |-> 2]

Terminal(task) == task.status \in {"completed", "error"}

\* The summary of a record as a sequence: empty when the key is absent.
SummaryOf(task) == IF "summary" \in DOMAIN task THEN <<task.summary>> ELSE <<>>

\* C6: no step changes the results or the summary (or its absence) of a record
\* whose status is completed or error, and the record stays in the Task Store.
C6_TerminalImmutable ==
    [][\A id \in DOMAIN analysis_tasks :
          Terminal(analysis_tasks[id]) =>
            /\ id \in DOMAIN analysis_tasks'
            /\ analysis_tasks'[id].status = analysis_tasks[id].status
            /\ analysis_tasks'[id].results = analysis_tasks[id].results
            /\ SummaryOf(analysis_tasks'[id]) = SummaryOf(analysis_tasks[id])]_vars

C6_Witness ==
    \E a, b \in DOMAIN analysis_tasks :
        /\ a < b
        /\ analysis_tasks[a].status = "completed"
        /\ analysis_tasks[a].results # EmptyDict
        /\ SummaryOf(analysis_tasks[a]) # <<>>
        /\ Returned(b)
        /\ invoked[b] # <<>>

\* C7: get on an issued identifier returns its record, with status pending or
\* running as long as the background run has not returned, and with status
\* completed or error only once it has.
C7_PollBeforeFinish ==
    \A id \in DOMAIN requested, io \in LoadOutcomes :
        LET got == GetAnalysisResults(analysis_tasks, storage, id, io)
        IN  /\ ~got.raised
            /\ got.value # None
            /\ ~Returned(id) => got.value.status \in {"pending", "running"}
            /\ got.value.status \in {"completed", "error"} => Returned(id)

C7_Witness ==
    \E a, b \in DOMAIN requested :
        /\ runs[a].at = "scheduled"
        /\ GetAnalysisResults(analysis_tasks, storage, a, "ok").value.status = "pending"
        /\ runs[b].at = "module"
        /\ GetAnalysisResults(analysis_tasks, storage, b, "ok").value.status = "running"

\* C8: get on an identifier that is not in the Task Store and has no readable
\* file (no file, a truncated file, or a read that fails) returns None without
\* raising, and the endpoint answers 404.
C8_UnknownIsNotFound ==
    \A id \in TaskIds, io \in LoadOutcomes :
        (/\ id \notin DOMAIN analysis_tasks
         /\ \/ id \notin DOMAIN storage
            \/ storage[id] = Truncated
            \/ io = "read_fails")
        => /\ GetAnalysisResults(analysis_tasks, storage, id, io)
                = [raised |-> FALSE, value |-> None]
           /\ GetAnalysisResultsEndpoint(analysis_tasks, storage, id, io).code = 404

C8_Witness ==
    \E a, b \in TaskIds :
        /\ a \notin DOMAIN analysis_tasks /\ a \notin DOMAIN storage
        /\ b \notin DOMAIN analysis_tasks /\ b \in DOMAIN storage /\ storage[b] = Truncated
        /\ GetAnalysisResultsEndpoint(analysis_tasks, storage, a, "ok").code = 404
        /\ GetAnalysisResultsEndpoint(analysis_tasks, storage, b, "ok").code = 404

\* C9: a record with status error carries the message, has no summary and no
\* completion time, and has no file; and a run whose summary generation raises
\* ends with status error and that message.
C9_TaskLevelFailure ==
    \A id \in DOMAIN analysis_tasks :
        LET task == analysis_tasks[id]
            summary == GenerateSummary(task.results)
        IN  /\ task.status = "error" =>
                 /\ Returned(id)
                 /\ "error" \in DOMAIN task
                 /\ "summary" \notin DOMAIN task
                 /\ "completed_at" \notin DOMAIN task
                 /\ id \notin DOMAIN storage
            /\ (Returned(id) /\ summary.raised) =>
                 /\ task.status = "error"
                 /\ task.error = summary.error

C9_Witness ==
    \E id \in DOMAIN analysis_tasks :
        LET task == analysis_tasks[id]
        IN  /\ task.status = "error"
            /\ task.error = "TypeError"
            /\ Len(task.modules) = 2
            /\ DOMAIN task.results = {"performance", "seo"}
            /\ task.results["seo"] = AnalyzeSeo

\* C10: for every identifier in the Task Store, whatever the status of its
\* record, GET /api/analysis/{task_id} answers 200 with a body that carries the
\* record's status.
C10_AlwaysOkWithStatus ==
    \A id \in DOMAIN analysis_tasks, io \in LoadOutcomes :
        LET response == GetAnalysisResultsEndpoint(analysis_tasks, storage, id, io)
        IN  /\ response.code = 200
            /\ "status" \in DOMAIN response.body
            /\ response.body.status = analysis_tasks[id].status

(***************************************************************************)
(* Lookups after the dict has been lost                                    *)
(***************************************************************************)
\* The last value a run, or start_analysis, has assigned to the status of id.
LastStatus(id) == statusLog[id][Len(statusLog[id])]

InProgressOrErrored(id) == LastStatus(id) \in {"pending", "running", "error"}

\* C11 (as stated): a lookup of an issued identifier whose task is in
\* progress or errored gives the task's record and never "not found", also
\* after the dict analysis_tasks has been lost.
C11_IssuedIsFound ==
    \A id \in DOMAIN requested : \A io \in LoadOutcomes :
        InProgressOrErrored(id) =>
            GetAnalysisResults(analysis_tasks, storage, id, io).value # None

\* C11 (amended): a never-issued identifier is not found; an identifier whose
\* record is in the dict is answered with that record; and once the dict has
\* been lost, an in-progress or errored task is not found either, because
\* only a completed record is ever written to storage.
C11_FoundWhileInMemory ==
    \A id \in TaskIds : \A io \in LoadOutcomes :
        LET got == GetAnalysisResults(analysis_tasks, storage, id, io)
        IN  /\ ~got.raised
            /\ id \notin DOMAIN requested => got.value = None
            /\ id \in DOMAIN analysis_tasks => got.value = analysis_tasks[id]
            /\ (/\ id \in DOMAIN requested
                /\ id \notin DOMAIN analysis_tasks
                /\ InProgressOrErrored(id)) => got.value = None

\* An errored task and a running task are lost with the dict and are not
\* found, while a task created afterwards is answered from the dict.
C11_Witness ==
    \E a, b \in DOMAIN requested :
        /\ a \notin DOMAIN analysis_tasks
        /\ LastStatus(a) \in {"running", "error"}
        /\ GetAnalysisResults(analysis_tasks, storage, a, "ok").value = None
        /\ b \in DOMAIN analysis_tasks
        /\ GetAnalysisResults(analysis_tasks, storage, b, "ok").value = analysis_tasks[b]

(***************************************************************************)
(* The persisted record                                                    *)
(***************************************************************************)
\* The results a finished run has built from the calls it made.
ResultsOf(calls) ==
    [name \in {calls[i].name : i \in 1..Len(calls)} |-> Expected(LastOutcome(calls, name))]

RecordKeys ==
    {"status", "url", "modules", "depth", "device", "timestamp", "results",
     "started_at", "summary", "completed_at"}

\* record is the full record of the completed task id: what was requested,
\* what its run computed, and the fields the completion adds.
IsCompletedRecordOf(record, id) ==
    /\ DOMAIN record = RecordKeys
    /\ record.status = "completed"
    /\ record.url \in Urls /\ record.depth \in Depths /\ record.device \in Devices
    /\ record.modules = requested[id]
    /\ record.timestamp = Now /\ record.started_at = Now
    /\ record.results = ResultsOf(invoked[id])
    /\ record.summary = GenerateSummary(ResultsOf(invoked[id])).value
    /\ record.completed_at = Now

\* C12 (as stated): every task that reaches completed has its full record in
\* storage, and a lookup that falls back to storage returns it.
C12_RoundTrip ==
    \A id \in DOMAIN requested :
        LastStatus(id) = "completed" =>
            /\ id \in DOMAIN storage
            /\ LoadResults(storage, id, "ok").value # None
            /\ IsCompletedRecordOf(LoadResults(storage, id, "ok").value, id)

\* C12 (amended): a task that reaches completed has a file in storage; unless
\* the write failed, which _save_results swallows, the file reads back as the
\* full record at completion, equal to the record in the dict while that is
\* still there, and a lookup without the dict entry returns it when the read
\* succeeds; after a failed write such a lookup gives "not found".
C12_RoundTripUnlessWriteFailed ==
    \A id \in DOMAIN requested :
        LastStatus(id) = "completed" =>
            /\ id \in DOMAIN storage
            /\ storage[id] # Truncated =>
                  LET loaded == LoadResults(storage, id, "ok").value
                  IN  /\ IsCompletedRecordOf(loaded, id)
                      /\ id \in DOMAIN analysis_tasks => loaded = analysis_tasks[id]
                      /\ id \notin DOMAIN analysis_tasks =>
                            GetAnalysisResults(analysis_tasks, storage, id, "ok").value = loaded
            /\ (storage[id] = Truncated /\ id \notin DOMAIN analysis_tasks) =>
                  GetAnalysisResults(analysis_tasks, storage, id, "ok").value = None

\* A completed task with a module entry and an error marker is read back from
\* storage after the dict has been lost.
C12_Witness ==
    \E id \in DOMAIN requested :
        /\ LastStatus(id) = "completed"
        /\ id \notin DOMAIN analysis_tasks
        /\ storage[id] # Truncated
        /\ Len(invoked[id]) = 2
        /\ invoked[id][1].outcome.raised /\ ~invoked[id][2].outcome.raised
        /\ invoked[id][1].name # invoked[id][2].name
        /\ IsCompletedRecordOf(GetAnalysisResults(analysis_tasks, storage, id, "ok").value, id)

(***************************************************************************)
(* What a run gives back to its caller                                     *)
(***************************************************************************)
\* C13: run_analysis with an identifier that is not in the dict returns
\* normally and changes nothing: no record is created, the records there are
\* stay as they are, and storage is not written.
C13_MissingRunNoEffect ==
    \A task_id \in TaskIds \ DOMAIN analysis_tasks :
        LET call == RunMissing(analysis_tasks, storage, task_id)
        IN  /\ ~call.raised
            /\ call.tasks = analysis_tasks
            /\ task_id \notin DOMAIN call.tasks
            /\ call.files = storage

\* The dict holds a record, and an identifier it has lost has a file in
\* storage: a run on the lost identifier leaves both as they are.
C13_Witness ==
    \E a, b \in DOMAIN requested :
        /\ a \notin DOMAIN analysis_tasks
        /\ a \in DOMAIN storage
        /\ b \in DOMAIN analysis_tasks
        /\ RunMissing(analysis_tasks, storage, a).tasks = analysis_tasks
        /\ RunMissing(analysis_tasks, storage, a).files = storage

CallNames(calls) == {calls[i].name : i \in 1..Len(calls)}

\* C14: a run never raises to its caller, whichever modules raise, whether
\* the summary fails and whether the write to storage fails; a module failure
\* shows as the error marker of its entry, a summary failure as status error
\* with its message, and a failed write leaves the record completed.
C14_RunNeverRaises ==
    \A id \in TaskIds :
        /\ id \in DOMAIN runs => runs[id].at \in {"scheduled", "module", "returned"}
        /\ id \notin DOMAIN analysis_tasks =>
              ~RunMissing(analysis_tasks, storage, id).raised
        /\ (Returned(id) /\ id \in DOMAIN analysis_tasks) =>
              LET task == analysis_tasks[id]
                  summary == GenerateSummary(task.results)
              IN  /\ task.status \in {"completed", "error"}
                  /\ \A name \in CallNames(invoked[id]) :
                        LastOutcome(invoked[id], name).raised =>
                            task.results[name] =
                                [error |-> LastOutcome(invoked[id], name).error]
                  /\ summary.raised <=> task.status = "error"
                  /\ summary.raised => task.error = summary.error
                  /\ (id \in DOMAIN storage /\ storage[id] = Truncated) =>
                        task.status = "completed"

\* One run has returned with a module having raised and the write having
\* failed, another with the summary having failed.
C14_Witness ==
    \E a, b \in DOMAIN analysis_tasks :
        /\ Returned(a) /\ Returned(b)
        /\ Len(invoked[a]) = 1 /\ invoked[a][1].outcome.raised
        /\ a \in DOMAIN storage /\ storage[a] = Truncated
        /\ analysis_tasks[a].status = "completed"
        /\ analysis_tasks[b].status = "error"
        /\ GenerateSummary(analysis_tasks[b].results).raised

(***************************************************************************)
(* Recommendations                                                         *)
(***************************************************************************)
\* C15: in every summary there is exactly one recommendation and
\* issues.important is 1 if and only if the performance entry has metrics with
\* a first_contentful_paint above 2000; otherwise there is no recommendation
\* and issues.important is 0; critical, moderate and minor are always 0.
C15_RecommendationRule ==
    (computed # None /\ ~computed.raised) =>
        LET summary == computed.value
            above == /\ FcpPresent(given_results)
                     /\ given_results["performance"].metrics.first_contentful_paint.num > 2000
        IN  /\ above <=> (Len(summary.recommendations) = 1 /\ summary.issues.important = 1)
            /\ ~above => (summary.recommendations = <<>> /\ summary.issues.important = 0)
            /\ summary.issues.critical = 0
            /\ summary.issues.moderate = 0
            /\ summary.issues.minor = 0

\* A summary with its one recommendation, for a first contentful paint of 2001.
C15_Witness ==
    /\ computed # None /\ ~computed.raised
    /\ FcpPresent(given_results)
    /\ given_results["performance"].metrics.first_contentful_paint = Num(2001)
    /\ Len(computed.value.recommendations) = 1
    /\ computed.value.issues.important = 1

(***************************************************************************)
(* The placeholder scenario                                                *)
(***************************************************************************)
Placeholder(name, payload) == [name |-> name, outcome |-> [raised |-> FALSE, value |-> payload]]

\* C16: a task requested with modules performance, seo whose two modules
\* return their placeholder payloads ends completed, with a lighthouse score
\* of 85, an seo score of 78, an overall score of 163/2 = 81.5 and no
\* recommendation, the first contentful paint being 1200.
C16_PerformanceSeoScenario ==
    \A id \in DOMAIN analysis_tasks :
        (/\ analysis_tasks[id].modules = <<"performance", "seo">>
         /\ Returned(id)
         /\ invoked[id] = <<Placeholder("performance", AnalyzePerformance),
                            Placeholder("seo", AnalyzeSeo)>>) =>
            LET task == analysis_tasks[id]
            IN  /\ task.status = "completed"
                /\ task.results["performance"].lighthouse_score = Num(85)
                /\ task.results["performance"].metrics.first_contentful_paint = Num(1200)
                /\ task.results["seo"].score = Num(78)
                /\ task.summary.overall_score = [num |-> 163, den |-> 2]
                /\ 2 * task.summary.overall_score.num = 163 * task.summary.overall_score.den
                /\ task.summary.recommendations = <<>>

C16_Witness ==
    \E id \in DOMAIN analysis_tasks :
        /\ analysis_tasks[id].modules = <<"performance", "seo">>
        /\ Returned(id)
        /\ invoked[id] = <<Placeholder("performance", AnalyzePerformance),
                           Placeholder("seo", AnalyzeSeo)>>
        /\ analysis_tasks[id].status = "completed"
        /\ Len(analysis_tasks[id].summary.recommendations) = 0

(***************************************************************************)
(* Interleaved runs                                                        *)
(***************************************************************************)
\* C17: in every step, a run is scheduled only together with the creation of
\* its record and one per record; a run that has started is never started
\* again and one that has returned stays returned; and a record changes only
\* in a step of the run scheduled for it, which changes no other record.
C17_OneRunPerRecord ==
    [][/\ \A id \in DOMAIN runs' \ DOMAIN runs :
             /\ id \notin DOMAIN analysis_tasks
             /\ id \in DOMAIN analysis_tasks'
             /\ runs'[id].at = "scheduled"
       /\ DOMAIN analysis_tasks' \ DOMAIN analysis_tasks = DOMAIN runs' \ DOMAIN runs
       /\ Cardinality(DOMAIN runs' \ DOMAIN runs) <= 1
       /\ \A id \in DOMAIN runs \cap DOMAIN runs' :
             /\ runs[id].at # "scheduled" => runs'[id].at # "scheduled"
             /\ runs[id].at = "returned" => runs'[id].at = "returned"
       /\ \A id \in DOMAIN analysis_tasks \cap DOMAIN analysis_tasks' :
             analysis_tasks'[id] # analysis_tasks[id] =>
                 /\ runs[id].at # "returned"
                 /\ runs'[id] # runs[id]
                 /\ \A other \in (DOMAIN analysis_tasks \cap DOMAIN analysis_tasks') \ {id} :
                       analysis_tasks'[other] = analysis_tasks[other]
      ]_vars

\* Two runs are interleaved: the task created later has returned with its
\* results while the one created first is still waiting for its first module.
C17_Witness ==
    \E a, b \in DOMAIN analysis_tasks :
        /\ a < b
        /\ runs[a].at = "module"
        /\ DOMAIN analysis_tasks[a].results = {}
        /\ Returned(b)
        /\ DOMAIN analysis_tasks[b].results # {}

(***************************************************************************)
(* The order of the invocations                                            *)
(***************************************************************************)
CalledNames(calls) == [k \in 1..Len(calls) |-> calls[k].name]

\* C18: the modules a run has invoked and seen finish are, in order and with
\* repetitions, the recognized names of the part of the requested list it has
\* gone through; the one it is waiting for is the next name of the list, so
\* none starts before the one listed before it has finished; when the run
\* has returned they are all the recognized names requested; and the entry
\* of a name invoked more than once is the outcome of its last invocation.
C18_InvocationOrder ==
    \A id \in DOMAIN analysis_tasks :
        LET task == analysis_tasks[id]
            calls == invoked[id]
            wanted == SelectSeq(task.modules, IsRecognized)
        IN  /\ task.modules = requested[id]
            /\ runs[id].at = "scheduled" => calls = <<>>
            /\ runs[id].at = "module" =>
                  /\ runs[id].i \in 1..Len(task.modules)
                  /\ task.modules[runs[id].i] \in Recognized
                  /\ CalledNames(calls) =
                        SelectSeq(SubSeq(task.modules, 1, runs[id].i - 1), IsRecognized)
            /\ Returned(id) => CalledNames(calls) = wanted
            /\ \A name \in CallNames(calls) :
                  task.results[name] = Expected(LastOutcome(calls, name))

\* A name requested twice has been invoked twice, raising the first time, and
\* its entry is what the second invocation returned.
C18_Witness ==
    \E id \in DOMAIN analysis_tasks :
        /\ Returned(id)
        /\ Len(analysis_tasks[id].modules) = 2
        /\ analysis_tasks[id].modules[1] = analysis_tasks[id].modules[2]
        /\ Len(invoked[id]) = 2
        /\ invoked[id][1].outcome.raised /\ ~invoked[id][2].outcome.raised
        /\ analysis_tasks[id].results[invoked[id][2].name] = invoked[id][2].outcome.value

(***************************************************************************)
(* Summary and completion time                                             *)
(***************************************************************************)
Completions(log) == Len(SelectSeq(log, LAMBDA status : status = "completed"))

\* C19: a pending or running record has neither summary nor completion time;
\* a record has a summary exactly when it has a completion time, exactly
\* when its status is completed; the summary is that of the final results,
\* assigned in the one step that completes the task, after every recognized
\* module requested has finished.
C19_SummaryIffCompleted ==
    \A id \in DOMAIN analysis_tasks :
        LET task == analysis_tasks[id]
        IN  /\ task.status \in {"pending", "running"} =>
                  /\ "summary" \notin DOMAIN task
                  /\ "completed_at" \notin DOMAIN task
            /\ "summary" \in DOMAIN task <=> task.status = "completed"
            /\ "completed_at" \in DOMAIN task <=> task.status = "completed"
            /\ Completions(statusLog[id]) = (IF "summary" \in DOMAIN task THEN 1 ELSE 0)
            /\ "summary" \in DOMAIN task =>
                  /\ Returned(id)
                  /\ CalledNames(invoked[id]) = SelectSeq(task.modules, IsRecognized)
                  /\ task.summary = GenerateSummary(task.results).value
                  /\ task.completed_at = Now

\* One record is completed with its summary and completion time, one is
\* running with a module entry and neither of them.
C19_Witness ==
    \E a, b \in DOMAIN analysis_tasks :
        /\ analysis_tasks[a].status = "completed"
        /\ "summary" \in DOMAIN analysis_tasks[a]
        /\ "completed_at" \in DOMAIN analysis_tasks[a]
        /\ analysis_tasks[b].status = "running"
        /\ "summary" \notin DOMAIN analysis_tasks[b]
        /\ "completed_at" \notin DOMAIN analysis_tasks[b]

(***************************************************************************)
(* Results while the run goes on                                           *)
(***************************************************************************)
\* The recognized names among the first n names of modules.
FinishedNames(modules, n) == {modules[k] : k \in 1..n} \cap Recognized

\* What a lookup shows of a pending and of a running task.
PartialResults ==
    \A id \in DOMAIN analysis_tasks :
        LET seen == GetAnalysisResults(analysis_tasks, storage, id, "ok").value
        IN  /\ seen.status = "pending" => DOMAIN seen.results = {}
            /\ seen.status = "running" =>
                  /\ runs[id].at = "module"
                  /\ DOMAIN seen.results = FinishedNames(seen.modules, runs[id].i - 1)

\* C20: after every step, a lookup of a pending task shows empty results and
\* a lookup of a running task shows entries for exactly the recognized names
\* among the requested names the run has gone through; and no step removes
\* a key from the results of a record.
C20_ResultsGrow ==
    [][/\ PartialResults'
       /\ \A id \in DOMAIN analysis_tasks :
             /\ id \in DOMAIN analysis_tasks'
             /\ DOMAIN analysis_tasks[id].results \subseteq DOMAIN analysis_tasks'[id].results
      ]_vars

\* A running task has finished its first module and waits for its second,
\* a different one, while another task is still pending.
C20_Witness ==
    \E a, b \in DOMAIN analysis_tasks :
        /\ analysis_tasks[a].status = "running"
        /\ runs[a].at = "module" /\ runs[a].i = 2
        /\ analysis_tasks[a].modules[1] # analysis_tasks[a].modules[2]
        /\ DOMAIN analysis_tasks[a].results = {analysis_tasks[a].modules[1]}
        /\ analysis_tasks[b].status = "pending"
        /\ DOMAIN analysis_tasks[b].results = {}

(***************************************************************************)
(* Termination                                                             *)
(***************************************************************************)
\* C21: when every scheduled run is executed and every awaited module
\* returns or raises, every task that was accepted ends with status completed
\* or error, whatever names were requested and whichever modules raise.
C21_EveryTaskTerminates ==
    \A id \in TaskIds :
        (id \in DOMAIN analysis_tasks) ~>
            (id \in DOMAIN analysis_tasks /\ Terminal(analysis_tasks[id]))

\* A task whose list starts with an unrecognized name and whose module has
\* raised has ended, and so has one whose list was empty.
C21_Witness ==
    \E a, b \in DOMAIN analysis_tasks :
        /\ Len(analysis_tasks[a].modules) = 2
        /\ analysis_tasks[a].modules[1] \notin Recognized
        /\ Len(invoked[a]) = 1 /\ invoked[a][1].outcome.raised
        /\ Terminal(analysis_tasks[a])
        /\ analysis_tasks[b].modules = <<>>
        /\ Terminal(analysis_tasks[b])

(***************************************************************************)
(* What storage holds                                                      *)
(***************************************************************************)
\* Every file is that of a task whose status was set to completed, and a file
\* that holds a record holds a completed one with summary and completion time.
StoredAreCompleted ==
    \A id \in DOMAIN storage :
        /\ id \in DOMAIN requested
        /\ LastStatus(id) = "completed"
        /\ id \in DOMAIN analysis_tasks => analysis_tasks[id].status = "completed"
        /\ storage[id] # Truncated =>
              LET record == JsonLoad(storage[id]).value
              IN  /\ record.status = "completed"
                  /\ "summary" \in DOMAIN record
                  /\ "completed_at" \in DOMAIN record

\* C22: in every state, every record in storage is completed and has a
\* summary and a completion time, no pending, running or errored task having
\* a file; a file appears in the step in which its run sets status completed;
\* and a file, once written, is never written again or removed.
C22_StorageHoldsCompleted ==
    /\ []StoredAreCompleted
    /\ [][/\ \A id \in DOMAIN storage' \ DOMAIN storage :
                /\ id \in DOMAIN statusLog
                /\ LastStatus(id) \in {"pending", "running"}
                /\ Completions(statusLog[id]) = 0
                /\ Completions(statusLog'[id]) = 1
                /\ statusLog'[id][Len(statusLog'[id])] = "completed"
          /\ \A id \in DOMAIN storage :
                id \in DOMAIN storage' /\ storage'[id] = storage[id]
         ]_vars

\* A completed task has its record in storage and an errored one has no
\* file, after both runs have returned and the dict has been lost.
C22_Witness ==
    \E a, b \in DOMAIN requested :
        /\ LastStatus(a) = "completed"
        /\ a \in DOMAIN storage /\ storage[a] # Truncated
        /\ JsonLoad(storage[a]).value.status = "completed"
        /\ LastStatus(b) = "error"
        /\ b \notin DOMAIN storage
        /\ analysis_tasks = EmptyDict

====
